---- MODULE Spec2Model ----
(***************************************************************************)
(* State-machine model of sidequest_app.py: the in-memory stores USERS and *)
(* QUESTS and the request handlers that read and mutate them.  Requests    *)
(* are handled one at a time; each action is one whole handler.            *)
(*                                                                         *)
(* Both stores are Python dicts keyed by a fresh uuid4 and iterated in     *)
(* insertion order, so each is a sequence whose index is the id; an id     *)
(* that no create_* call has returned is UnknownId.  Times are whole hours *)
(* on the UTC time line.  Scores are in ten-thousandths (round(score, 4)). *)
(***************************************************************************)
EXTENDS Integers, Sequences, FiniteSets, TLC

\* ---------------------------------------------------------------- bounds
MaxUsers    == 2
MaxQuests   == 2
MaxRequests == 5
MaxNow      == 1

\* ------------------------------------------------------ program constants
MinCapacity == 2
MinRating   == 1
MaxRating   == 5
BaseScore   == 5000
StyleBonus  == 3000
DefaultK    == 3

\* ----------------------------------------------------------------- inputs
\* an id that no create_* call has returned, and the user ids a client may send
\* that are not (and never become) keys of USERS
UnknownId == 0
StrangerIds == {-1, UnknownId}

\* request bodies of POST /users
UserCreate ==
    { [display_name |-> "Alex", password |-> "abc", default_energy |-> "neutral",
       social_style |-> "quiet",  mode |-> "offline", interests |-> << "Chess" >>, area |-> "NTU"],
      [display_name |-> "alex", password |-> "abc", default_energy |-> "high",
       social_style |-> "either", mode |-> "either",  interests |-> << >>,         area |-> "NTU"],
      [display_name |-> "Bo",   password |-> "abc", default_energy |-> "low",
       social_style |-> "either", mode |-> "online",  interests |-> << >>,         area |-> "NUS"] }

\* request bodies of POST /users/login
UserLogin ==
    { [display_name |-> "alex", password |-> "abc"],
      [display_name |-> "alex", password |-> "xyz"],
      [display_name |-> "Bo",   password |-> "abc"] }

\* request bodies of POST /quests; start_time_iso is the wall-clock hour and
\* the zone suffix as written ("UTC" is not a suffix fromisoformat accepts)
QuestCreate ==
    { [area |-> "NTU", social_style |-> "talkative", mode |-> "either", tags |-> << >>,
       duration_mins |-> 90, capacity |-> MinCapacity,
       start_time_iso |-> [wall |-> 1,  zone |-> "Z"]],
      [area |-> "NTU", social_style |-> "quiet",  mode |-> "offline", tags |-> << "Chess" >>,
       duration_mins |-> 30, capacity |-> MinCapacity,
       start_time_iso |-> [wall |-> 60, zone |-> "Z"]],
      [area |-> "NUS", social_style |-> "either", mode |-> "online", tags |-> << >>,
       duration_mins |-> 45, capacity |-> MinCapacity + 1,
       start_time_iso |-> [wall |-> 8,  zone |-> "+08:00"]],
      [area |-> "NUS", social_style |-> "quiet",  mode |-> "online", tags |-> << >>,
       duration_mins |-> 45, capacity |-> MinCapacity,
       start_time_iso |-> [wall |-> 8,  zone |-> "UTC"]] }

RatingInputs == {MinRating, MaxRating}
\* the query parameter k: any integer is accepted
KInputs      == {-1, 0, 1, DefaultK}

\* USERS, QUESTS: the two stores; now: the clock datetime.utcnow() reads;
\* nreq: requests handled so far (the run ends after MaxRequests); resp: what
\* the last request was and what it was answered, `at` being the time it ran;
\* pending: the join requests that are between their checks and their add
VARIABLES USERS, QUESTS, now, nreq, resp, pending

vars == <<USERS, QUESTS, now, nreq, resp, pending>>

\* ---------------------------------------------------------------- helpers
\* str.lower() on the names and tags in use
Lower(s) == CASE s = "Alex"  -> "alex"
              [] s = "Bo"    -> "bo"
              [] s = "Chess" -> "chess"
              [] OTHER       -> s

\* set(t.lower() for t in tags)
LowerSet(tags) == { Lower(tags[i]) : i \in DOMAIN tags }

\* parse_iso: 'Z' is rewritten to '+00:00', then datetime.fromisoformat;
\* an unparseable string raises (400).
IsoParses(s) == s.zone \in {"Z", "+00:00", "+08:00"}

parse_iso(s) == [wall |-> s.wall, zone |-> IF s.zone = "Z" THEN "+00:00" ELSE s.zone]

\* datetime.isoformat(): the wall clock followed by the stored offset
isoformat(dt) == [wall |-> dt.wall, zone |-> dt.zone]

OffsetHours(zone) == IF zone = "+08:00" THEN 8 ELSE 0

\* the instant on the UTC time line that an aware datetime denotes
Instant(dt) == dt.wall - OffsetHours(dt.zone)

\* capacity_available off by one: a full quest still counts as open
capacity_available_Le(q) == Cardinality(q.participant_ids) <= q.capacity

capacity_available(q) == Cardinality(q.participant_ids) < q.capacity

\* what a User record holds of the user's first join: the dataclass has no
\* first_join_at field, and nothing adds one
NoTime == -1

first_join_at(u) == IF "first_join_at" \in DOMAIN u THEN u.first_join_at ELSE NoTime

UserIds  == 1 .. Len(USERS)
QuestIds == 1 .. Len(QUESTS)

NoResp == [op |-> "none", status |-> 0, detail |-> "", quest_id |-> UnknownId,
           user_id |-> UnknownId, k |-> 0, at |-> 0, out |-> << >>, rating |-> 0]

Reply(op, status, detail, qid, uid, k, out) ==
    [op |-> op, status |-> status, detail |-> detail, quest_id |-> qid,
     user_id |-> uid, k |-> k, at |-> now, out |-> out, rating |-> 0]

Init ==
    /\ USERS = << >>
    /\ QUESTS = << >>
    /\ now = 0
    /\ nreq = 0
    /\ resp = NoResp
    /\ pending = {}

\* ------------------------------------------------------------- operations
\* the name check comparing the names as typed, without .lower()
NameTaken_CaseSensitive(name) == \E i \in UserIds : USERS[i].display_name = name

NameTaken(name) == \E i \in UserIds : Lower(USERS[i].display_name) = Lower(name)

create_user(body) ==
    /\ nreq' = nreq + 1
    /\ IF NameTaken(body.display_name)
       THEN /\ resp' = Reply("create_user", 400, "Name already taken.", UnknownId, UnknownId, 0, << >>)
            /\ UNCHANGED <<USERS, QUESTS, now>>
       ELSE /\ Len(USERS) < MaxUsers
            /\ USERS' = Append(USERS, [user_id |-> Len(USERS) + 1,
                                       display_name |-> body.display_name,
                                       password |-> body.password,
                                       default_energy |-> body.default_energy,
                                       social_style |-> body.social_style,
                                       mode |-> body.mode,
                                       interests |-> LowerSet(body.interests),
                                       area |-> body.area])
            /\ resp' = Reply("create_user", 200, "", UnknownId, Len(USERS) + 1, 0, << >>)
            /\ UNCHANGED <<QUESTS, now>>

\* create_quest without the organizer lookup
create_quest_NoOrganizerCheck(organizer_id, body) ==
    /\ nreq' = nreq + 1
    /\ IF ~IsoParses(body.start_time_iso)
       THEN /\ resp' = Reply("create_quest", 400, "Invalid datetime format.", UnknownId, organizer_id, 0, << >>)
            /\ UNCHANGED <<USERS, QUESTS, now>>
       ELSE /\ Len(QUESTS) < MaxQuests
            /\ QUESTS' = Append(QUESTS, [quest_id |-> Len(QUESTS) + 1,
                                         organizer_id |-> organizer_id,
                                         area |-> body.area,
                                         social_style |-> body.social_style,
                                         mode |-> body.mode,
                                         tags |-> LowerSet(body.tags),
                                         start_time |-> parse_iso(body.start_time_iso),
                                         duration_mins |-> body.duration_mins,
                                         capacity |-> body.capacity,
                                         participant_ids |-> {},
                                         completions |-> [x \in {} |-> 0]])
            /\ resp' = Reply("create_quest", 200, "", Len(QUESTS) + 1, organizer_id, 0, << >>)
            /\ UNCHANGED <<USERS, now>>

create_quest(organizer_id, body) ==
    /\ nreq' = nreq + 1
    /\ IF organizer_id \notin UserIds
       THEN /\ resp' = Reply("create_quest", 404, "Organizer (User) not found", UnknownId, organizer_id, 0, << >>)
            /\ UNCHANGED <<USERS, QUESTS, now>>
       ELSE IF ~IsoParses(body.start_time_iso)
       THEN /\ resp' = Reply("create_quest", 400, "Invalid datetime format.", UnknownId, organizer_id, 0, << >>)
            /\ UNCHANGED <<USERS, QUESTS, now>>
       ELSE /\ Len(QUESTS) < MaxQuests
            /\ QUESTS' = Append(QUESTS, [quest_id |-> Len(QUESTS) + 1,
                                         organizer_id |-> organizer_id,
                                         area |-> body.area,
                                         social_style |-> body.social_style,
                                         mode |-> body.mode,
                                         tags |-> LowerSet(body.tags),
                                         start_time |-> parse_iso(body.start_time_iso),
                                         duration_mins |-> body.duration_mins,
                                         capacity |-> body.capacity,
                                         participant_ids |-> {},
                                         completions |-> [x \in {} |-> 0]])
            /\ resp' = Reply("create_quest", 200, "", Len(QUESTS) + 1, organizer_id, 0, << >>)
            /\ UNCHANGED <<USERS, now>>

\* join_quest with the capacity check moved in front of the membership check
join_quest_FullFirst(quest_id, user_id) ==
    /\ nreq' = nreq + 1
    /\ IF quest_id \notin QuestIds
       THEN /\ resp' = Reply("join_quest", 404, "Quest not found", quest_id, user_id, 0, << >>)
            /\ UNCHANGED <<USERS, QUESTS, now>>
       ELSE IF ~capacity_available(QUESTS[quest_id])
       THEN /\ resp' = Reply("join_quest", 400, "Full", quest_id, user_id, 0, << >>)
            /\ UNCHANGED <<USERS, QUESTS, now>>
       ELSE IF user_id \in QUESTS[quest_id].participant_ids
       THEN /\ resp' = Reply("join_quest", 200, "Already joined", quest_id, user_id, 0, << >>)
            /\ UNCHANGED <<USERS, QUESTS, now>>
       ELSE /\ QUESTS' = [QUESTS EXCEPT ![quest_id].participant_ids = @ \cup {user_id}]
            /\ resp' = Reply("join_quest", 200, "", quest_id, user_id, 0, << >>)
            /\ UNCHANGED <<USERS, now>>

\* join_quest without the capacity check
join_quest_NoCapacityCheck(quest_id, user_id) ==
    /\ nreq' = nreq + 1
    /\ IF quest_id \notin QuestIds
       THEN /\ resp' = Reply("join_quest", 404, "Quest not found", quest_id, user_id, 0, << >>)
            /\ UNCHANGED <<USERS, QUESTS, now>>
       ELSE IF user_id \in QUESTS[quest_id].participant_ids
       THEN /\ resp' = Reply("join_quest", 200, "Already joined", quest_id, user_id, 0, << >>)
            /\ UNCHANGED <<USERS, QUESTS, now>>
       ELSE /\ QUESTS' = [QUESTS EXCEPT ![quest_id].participant_ids = @ \cup {user_id}]
            /\ resp' = Reply("join_quest", 200, "", quest_id, user_id, 0, << >>)
            /\ UNCHANGED <<USERS, now>>

join_quest(quest_id, user_id) ==
    /\ nreq' = nreq + 1
    /\ IF quest_id \notin QuestIds
       THEN /\ resp' = Reply("join_quest", 404, "Quest not found", quest_id, user_id, 0, << >>)
            /\ UNCHANGED <<USERS, QUESTS, now>>
       ELSE IF user_id \in QUESTS[quest_id].participant_ids
       THEN /\ resp' = Reply("join_quest", 200, "Already joined", quest_id, user_id, 0, << >>)
            /\ UNCHANGED <<USERS, QUESTS, now>>
       ELSE IF ~capacity_available(QUESTS[quest_id])
       THEN /\ resp' = Reply("join_quest", 400, "Full", quest_id, user_id, 0, << >>)
            /\ UNCHANGED <<USERS, QUESTS, now>>
       ELSE
            /\ QUESTS' = [QUESTS EXCEPT ![quest_id].participant_ids = @ \cup {user_id}]
            /\ resp' = Reply("join_quest", 200, "", quest_id, user_id, 0, << >>)
            /\ UNCHANGED <<USERS, now>>

\* complete_quest also taking the user off the quest once it is rated
complete_quest_Leaves(quest_id, user_id, rating) ==
    /\ nreq' = nreq + 1
    /\ IF quest_id \notin QuestIds
       THEN /\ resp' = Reply("complete_quest", 404, "Quest not found", quest_id, user_id, 0, << >>)
            /\ UNCHANGED <<USERS, QUESTS, now>>
       ELSE /\ QUESTS' = [QUESTS EXCEPT ![quest_id].completions =
                              [x \in DOMAIN @ \cup {user_id} |-> IF x = user_id THEN rating ELSE @[x]],
                                        ![quest_id].participant_ids = @ \ {user_id}]
            /\ resp' = [Reply("complete_quest", 200, "", quest_id, user_id, 0, << >>)
                           EXCEPT !.rating = rating]
            /\ UNCHANGED <<USERS, now>>

\* complete_quest storing with setdefault: a rating already stored is kept
complete_quest_KeepFirst(quest_id, user_id, rating) ==
    /\ nreq' = nreq + 1
    /\ IF quest_id \notin QuestIds
       THEN /\ resp' = Reply("complete_quest", 404, "Quest not found", quest_id, user_id, 0, << >>)
            /\ UNCHANGED <<USERS, QUESTS, now>>
       ELSE /\ QUESTS' = [QUESTS EXCEPT ![quest_id].completions =
                              [x \in DOMAIN @ \cup {user_id} |-> IF x \in DOMAIN @ THEN @[x] ELSE rating]]
            /\ resp' = [Reply("complete_quest", 200, "", quest_id, user_id, 0, << >>)
                           EXCEPT !.rating = rating]
            /\ UNCHANGED <<USERS, now>>

\* the reply to a stored rating is {"ok": True}; resp also keeps the
\* connectedness_rating of the request
complete_quest(quest_id, user_id, rating) ==
    /\ nreq' = nreq + 1
    /\ IF quest_id \notin QuestIds
       THEN /\ resp' = Reply("complete_quest", 404, "Quest not found", quest_id, user_id, 0, << >>)
            /\ UNCHANGED <<USERS, QUESTS, now>>
       ELSE /\ QUESTS' = [QUESTS EXCEPT ![quest_id].completions =
                              [x \in DOMAIN @ \cup {user_id} |-> IF x = user_id THEN rating ELSE @[x]]]
            /\ resp' = [Reply("complete_quest", 200, "", quest_id, user_id, 0, << >>)
                           EXCEPT !.rating = rating]
            /\ UNCHANGED <<USERS, now>>

\* --- get_recommendations
\* the three `continue` filters of the candidate loop
IsCandidate_NoArea(user_id, q) ==
    /\ user_id \notin q.participant_ids
    /\ capacity_available(q)

IsCandidate_NoMember(user_id, q) ==
    /\ q.area = USERS[user_id].area
    /\ capacity_available(q)

IsCandidate_NoCapacity(user_id, q) ==
    /\ q.area = USERS[user_id].area
    /\ user_id \notin q.participant_ids

IsCandidate(user_id, q) ==
    /\ q.area = USERS[user_id].area
    /\ user_id \notin q.participant_ids
    /\ capacity_available(q)

\* the bonus also given when either side is "either"
ScoreOf_EitherMatches(u, q) ==
    BaseScore + (IF \/ u.social_style = q.social_style
                    \/ u.social_style = "either"
                    \/ q.social_style = "either"
                 THEN StyleBonus ELSE 0)

ScoreOf(u, q) == BaseScore + (IF u.social_style = q.social_style THEN StyleBonus ELSE 0)

\* candidates, in the iteration order of QUESTS.values(), from quest i on
RECURSIVE CandidatesFrom(_, _)
CandidatesFrom(user_id, i) ==
    IF i > Len(QUESTS) THEN << >>
    ELSE (IF IsCandidate(user_id, QUESTS[i])
          THEN << [q |-> QUESTS[i], score |-> ScoreOf(USERS[user_id], QUESTS[i])] >>
          ELSE << >>) \o CandidatesFrom(user_id, i + 1)

Candidates(user_id) == CandidatesFrom(user_id, 1)

\* list.sort(key=score, reverse=True): descending and stable, so an item goes
\* behind every item already placed whose score is not smaller
\* the item goes in front of the items of equal score
RECURSIVE InsertDesc_BeforeEqual(_, _)
InsertDesc_BeforeEqual(x, s) ==
    IF s = << >> THEN << x >>
    ELSE IF Head(s).score > x.score THEN << Head(s) >> \o InsertDesc_BeforeEqual(x, Tail(s))
    ELSE << x >> \o s

RECURSIVE InsertDesc(_, _)
InsertDesc(x, s) ==
    IF s = << >> THEN << x >>
    ELSE IF Head(s).score >= x.score THEN << Head(s) >> \o InsertDesc(x, Tail(s))
    ELSE << x >> \o s

\* the candidates left in iteration order
SortDesc_Unsorted(s) == s

RECURSIVE SortDesc(_)
SortDesc(s) ==
    IF s = << >> THEN << >>
    ELSE InsertDesc(s[Len(s)], SortDesc(SubSeq(s, 1, Len(s) - 1)))

\* the slice s[:k]: the first k items, or all but the last -k when k < 0
SliceTo(s, k) ==
    LET n == Len(s)
        m == IF k >= 0 THEN (IF k < n THEN k ELSE n)
             ELSE (IF n + k > 0 THEN n + k ELSE 0)
    IN  SubSeq(s, 1, m)

\* QuestOut.score of a list that carries no scores
NoScore == "None"

QuestOut(q, score, has_joined, is_completed) ==
    [quest_id |-> q.quest_id,
     area |-> q.area,
     social_style |-> q.social_style,
     mode |-> q.mode,
     start_time_iso |-> isoformat(q.start_time),
     duration_mins |-> q.duration_mins,
     capacity |-> q.capacity,
     participants |-> Cardinality(q.participant_ids),
     score |-> score,
     has_joined |-> has_joined,
     is_completed |-> is_completed]

Recommend(user_id, k) ==
    LET top == SliceTo(SortDesc(Candidates(user_id)), k)
    IN  [i \in 1 .. Len(top) |-> QuestOut(top[i].q, top[i].score, FALSE, FALSE)]

get_recommendations(user_id, k) ==
    /\ nreq' = nreq + 1
    /\ IF user_id \notin UserIds
       THEN resp' = Reply("get_recommendations", 404, "User not found", UnknownId, user_id, k, << >>)
       ELSE resp' = Reply("get_recommendations", 200, "", UnknownId, user_id, k, Recommend(user_id, k))
    /\ UNCHANGED <<USERS, QUESTS, now>>

\* --- login_user
\* the first user, in iteration order, whose name matches ignoring case
RECURSIVE FirstNamed(_, _)
FirstNamed(name, i) ==
    IF i > Len(USERS) THEN UnknownId
    ELSE IF Lower(USERS[i].display_name) = Lower(name) THEN i
    ELSE FirstNamed(name, i + 1)

login_user(body) ==
    /\ nreq' = nreq + 1
    /\ LET i == FirstNamed(body.display_name, 1)
       IN  IF i = UnknownId
           THEN resp' = Reply("login_user", 404, "User not found.", UnknownId, UnknownId, 0, << >>)
           ELSE IF USERS[i].password = body.password
           THEN resp' = Reply("login_user", 200, "", UnknownId, i, 0, << >>)
           ELSE resp' = Reply("login_user", 401, "Incorrect password.", UnknownId, UnknownId, 0, << >>)
    /\ UNCHANGED <<USERS, QUESTS, now>>

\* --- get_my_quests
\* the order of two isoformat() strings: same-width digits first, so the wall
\* clock decides, then the offset suffix
ZoneRank(zone) == IF zone = "+08:00" THEN 1 ELSE 0

IsoStrLess(a, b) ==
    \/ a.wall < b.wall
    \/ a.wall = b.wall /\ ZoneRank(a.zone) < ZoneRank(b.zone)

\* the joined quests as QuestOut, in the iteration order of QUESTS.values()
\* the loop also keeping the quests the user has rated
RECURSIVE JoinedFrom_OrRated(_, _)
JoinedFrom_OrRated(user_id, i) ==
    IF i > Len(QUESTS) THEN << >>
    ELSE (IF user_id \in QUESTS[i].participant_ids \/ user_id \in DOMAIN QUESTS[i].completions
          THEN << QuestOut(QUESTS[i], NoScore, TRUE, user_id \in DOMAIN QUESTS[i].completions) >>
          ELSE << >>) \o JoinedFrom_OrRated(user_id, i + 1)

RECURSIVE JoinedFrom(_, _)
JoinedFrom(user_id, i) ==
    IF i > Len(QUESTS) THEN << >>
    ELSE (IF user_id \in QUESTS[i].participant_ids
          THEN << QuestOut(QUESTS[i], NoScore, TRUE, user_id \in DOMAIN QUESTS[i].completions) >>
          ELSE << >>) \o JoinedFrom(user_id, i + 1)

\* out.sort(key=start_time_iso): ascending and stable, so an item goes behind
\* every item already placed whose key is not greater
RECURSIVE InsertByIso(_, _)
InsertByIso(x, s) ==
    IF s = << >> THEN << x >>
    ELSE IF IsoStrLess(x.start_time_iso, Head(s).start_time_iso) THEN << x >> \o s
    ELSE << Head(s) >> \o InsertByIso(x, Tail(s))

RECURSIVE SortByIso(_)
SortByIso(s) ==
    IF s = << >> THEN << >>
    ELSE InsertByIso(s[Len(s)], SortByIso(SubSeq(s, 1, Len(s) - 1)))

MyQuests(user_id) == SortByIso(JoinedFrom(user_id, 1))

\* get_my_quests reading completions through a defaulting lookup, which
\* stores an entry for the user in every quest they joined
get_my_quests_TouchesCompletions(user_id) ==
    /\ nreq' = nreq + 1
    /\ resp' = Reply("get_my_quests", 200, "", UnknownId, user_id, 0, MyQuests(user_id))
    /\ QUESTS' = [i \in 1 .. Len(QUESTS) |->
                     IF user_id \in QUESTS[i].participant_ids
                     THEN [QUESTS[i] EXCEPT !.completions =
                              [x \in DOMAIN @ \cup {user_id} |-> IF x \in DOMAIN @ THEN @[x] ELSE 0]]
                     ELSE QUESTS[i]]
    /\ UNCHANGED <<USERS, now>>

get_my_quests(user_id) ==
    /\ nreq' = nreq + 1
    /\ resp' = Reply("get_my_quests", 200, "", UnknownId, user_id, 0, MyQuests(user_id))
    /\ UNCHANGED <<USERS, QUESTS, now>>

\* --- list_quests
list_quests ==
    /\ nreq' = nreq + 1
    /\ resp' = Reply("list_quests", 200, "", UnknownId, UnknownId, 0,
                     [i \in 1 .. Len(QUESTS) |-> QuestOut(QUESTS[i], NoScore, FALSE, FALSE)])
    /\ UNCHANGED <<USERS, QUESTS, now>>

\* the clock read by datetime.utcnow() moves on between requests
Tick ==
    /\ now < MaxNow
    /\ now' = now + 1
    /\ UNCHANGED <<USERS, QUESTS, nreq, resp, pending>>

\* requests are handled one at a time, each from start to end, until
\* MaxRequests of them have been handled
Serial == nreq < MaxRequests /\ pending' = pending

Next ==
    \/ \E body \in UserCreate : Serial /\ create_user(body)
    \/ \E o \in UserIds \cup {UnknownId}, body \in QuestCreate : Serial /\ create_quest(o, body)
    \/ \E q \in QuestIds \cup {UnknownId}, u \in UserIds \cup StrangerIds :
          Serial /\ join_quest(q, u)
    \/ \E q \in QuestIds \cup {UnknownId}, u \in UserIds \cup StrangerIds, r \in RatingInputs :
          Serial /\ complete_quest(q, u, r)
    \/ \E u \in UserIds \cup {UnknownId}, k \in KInputs : Serial /\ get_recommendations(u, k)
    \/ \E body \in UserLogin : Serial /\ login_user(body)
    \/ \E u \in UserIds \cup StrangerIds : Serial /\ get_my_quests(u)
    \/ Serial /\ list_quests
    \/ Tick

Spec == Init /\ [][Next]_vars

\* --- a user's joined quests
\* The requests that build and read a user's list of joined quests, handled
\* one at a time; a list of two quests takes one request more than MaxRequests
\* (a user, two quests, two joins, the read).
SerialLong == nreq < MaxRequests + 1 /\ pending' = pending

NextMyQuests ==
    \/ \E body \in UserCreate : SerialLong /\ create_user(body)
    \/ \E o \in UserIds, body \in QuestCreate : SerialLong /\ create_quest(o, body)
    \/ \E q \in QuestIds, u \in UserIds \cup StrangerIds : SerialLong /\ join_quest(q, u)
    \/ \E u \in UserIds \cup StrangerIds : SerialLong /\ get_my_quests(u)
    \/ Tick

SpecMyQuests == Init /\ [][NextMyQuests]_vars

\* --- join requests in flight at once
\* The handlers are plain `def` functions, which the server runs on worker
\* threads; nothing in join_quest holds a lock, so another request can run
\* between its checks and its add.
\* join_quest up to and including the capacity check
join_begin(quest_id, user_id) ==
    /\ nreq < MaxRequests
    /\ nreq' = nreq + 1
    /\ IF quest_id \notin QuestIds
       THEN /\ resp' = Reply("join_quest", 404, "Quest not found", quest_id, user_id, 0, << >>)
            /\ UNCHANGED pending
       ELSE IF user_id \in QUESTS[quest_id].participant_ids
       THEN /\ resp' = Reply("join_quest", 200, "Already joined", quest_id, user_id, 0, << >>)
            /\ UNCHANGED pending
       ELSE IF ~capacity_available(QUESTS[quest_id])
       THEN /\ resp' = Reply("join_quest", 400, "Full", quest_id, user_id, 0, << >>)
            /\ UNCHANGED pending
       ELSE /\ pending' = pending \cup {[quest_id |-> quest_id, user_id |-> user_id]}
            /\ UNCHANGED resp
    /\ UNCHANGED <<USERS, QUESTS, now>>

\* join_quest from participant_ids.add to its return
join_add(p) ==
    /\ p \in pending
    /\ pending' = pending \ {p}
    /\ QUESTS' = [QUESTS EXCEPT ![p.quest_id].participant_ids = @ \cup {p.user_id}]
    /\ resp' = Reply("join_quest", 200, "", p.quest_id, p.user_id, 0, << >>)
    /\ UNCHANGED <<USERS, now, nreq>>

NextConc ==
    \/ \E body \in UserCreate : Serial /\ create_user(body)
    \/ \E o \in UserIds \cup {UnknownId}, body \in QuestCreate : Serial /\ create_quest(o, body)
    \/ \E q \in QuestIds \cup {UnknownId}, u \in UserIds \cup StrangerIds : join_begin(q, u)
    \/ \E p \in pending : join_add(p)
    \/ Tick

SpecConc == Init /\ [][NextConc]_vars

\* ================================================================= claims
\* the last request was a get_recommendations call that returned a list; the
\* stores are still as they were during the call
IsRec == resp.op = "get_recommendations" /\ resp.status = 200

\* a request was handled in this step
Handled == nreq' = nreq + 1

Members(i) == QUESTS[i].participant_ids

IsFull(i) == Cardinality(Members(i)) = QUESTS[i].capacity

\* C1: after any sequence of create_user, create_quest, join_quest and
\* complete_quest requests, every quest has len(participant_ids) <= capacity.
C1_CapacityBound ==
    \A i \in QuestIds : Cardinality(Members(i)) <= QUESTS[i].capacity

\* a join was turned away from a quest that is exactly full
C1_Witness ==
    /\ resp.op = "join_quest" /\ resp.status = 400
    /\ resp.quest_id \in QuestIds /\ IsFull(resp.quest_id)

\* C2: a quest whose area differs from the user's area is in no list returned
\* by get_recommendations(u), whatever k.
C2_NoCrossArea ==
    IsRec =>
        \A i \in QuestIds : QUESTS[i].area # USERS[resp.user_id].area =>
            \A j \in DOMAIN resp.out : resp.out[j].quest_id # i

\* a non-empty list was returned while an open quest the user has not joined
\* exists in another area
C2_Witness ==
    /\ IsRec /\ resp.out # << >>
    /\ \E i \in QuestIds : /\ QUESTS[i].area # USERS[resp.user_id].area
                            /\ resp.user_id \notin Members(i)
                            /\ capacity_available(QUESTS[i])

\* C3: the scores of a returned list are non-increasing from first to last.
C3_ScoresNonIncreasing ==
    IsRec =>
        \A i, j \in DOMAIN resp.out : i < j => resp.out[i].score >= resp.out[j].score

\* two quests were returned with different scores, the later-created first
C3_Witness ==
    /\ IsRec /\ Len(resp.out) >= 2
    /\ resp.out[1].score > resp.out[2].score
    /\ resp.out[1].quest_id > resp.out[2].quest_id

\* C4: join_quest(Q, U) with U already in Q.participant_ids answers ok with
\* "Already joined" and leaves the stores unchanged, also when Q is full.
C4_JoinIdempotent ==
    [][ ( /\ Handled /\ resp'.op = "join_quest"
          /\ resp'.quest_id \in QuestIds
          /\ resp'.user_id \in Members(resp'.quest_id) )
        => ( /\ resp'.status = 200 /\ resp'.detail = "Already joined"
             /\ QUESTS' = QUESTS /\ USERS' = USERS ) ]_vars

\* a member of a full quest joined it again
C4_Witness ==
    /\ resp.op = "join_quest" /\ resp.detail = "Already joined"
    /\ IsFull(resp.quest_id)
    /\ resp.user_id \in Members(resp.quest_id)

\* C5: complete_quest(Q, U, rating) is rejected when U is not in
\* Q.participant_ids, so every key of Q.completions is a participant of Q.
C5_CompletionByMemberOnly ==
    /\ ( /\ resp.op = "complete_quest" /\ resp.quest_id \in QuestIds
         /\ resp.user_id \notin Members(resp.quest_id) ) => resp.status # 200
    /\ \A i \in QuestIds : DOMAIN QUESTS[i].completions \subseteq Members(i)

\* C6: join_quest(Q, U) with U not a participant and Q full is rejected with
\* "Full" and leaves USERS and QUESTS unchanged.
C6_FullRejected ==
    [][ ( /\ Handled /\ resp'.op = "join_quest"
          /\ resp'.quest_id \in QuestIds
          /\ resp'.user_id \notin Members(resp'.quest_id)
          /\ IsFull(resp'.quest_id) )
        => ( /\ resp'.status = 400 /\ resp'.detail = "Full"
             /\ QUESTS' = QUESTS /\ USERS' = USERS ) ]_vars

\* a non-member was answered "Full"
C6_Witness ==
    /\ resp.op = "join_quest" /\ resp.detail = "Full"
    /\ resp.user_id \notin Members(resp.quest_id)
    /\ IsFull(resp.quest_id)

\* C7: every quest returned by get_recommendations has
\* len(participant_ids) < capacity at the time of the call.
C7_RecommendedHasCapacity ==
    IsRec =>
        \A j \in DOMAIN resp.out :
            /\ Cardinality(Members(resp.out[j].quest_id)) < QUESTS[resp.out[j].quest_id].capacity
            /\ resp.out[j].participants < resp.out[j].capacity

\* recommendations were asked for while a full quest of the user's area, not
\* joined by the user, exists
C7_Witness ==
    /\ IsRec
    /\ \E i \in QuestIds : /\ QUESTS[i].area = USERS[resp.user_id].area
                            /\ resp.user_id \notin Members(i)
                            /\ IsFull(i)

\* C8: get_recommendations(u) returns no quest whose participant_ids holds u.
C8_RecommendedNotJoined ==
    IsRec =>
        \A j \in DOMAIN resp.out : resp.user_id \notin Members(resp.out[j].quest_id)

\* recommendations were asked for by a member of an open quest of their area
C8_Witness ==
    /\ IsRec
    /\ \E i \in QuestIds : /\ QUESTS[i].area = USERS[resp.user_id].area
                            /\ resp.user_id \in Members(i)
                            /\ capacity_available(QUESTS[i])

\* C9: every quest returned by get_recommendations starts inside the window
\* now <= start_time <= now + 48 hours, now being the time of the call.
C9_StartsInWindow ==
    IsRec =>
        \A j \in DOMAIN resp.out :
            LET t == Instant(parse_iso(resp.out[j].start_time_iso))
            IN  resp.at <= t /\ t <= resp.at + 48

\* C10: the returned list has min(number of candidates, clamp(k, 1, 10))
\* items and is the highest-scored prefix of the candidates.
C10_LimitClamped ==
    IsRec =>
        LET ranked == SortDesc(Candidates(resp.user_id))
            limit  == IF resp.k < 1 THEN 1 ELSE IF resp.k > 10 THEN 10 ELSE resp.k
            n      == IF Len(ranked) < limit THEN Len(ranked) ELSE limit
        IN  /\ Len(resp.out) = n
            /\ \A j \in 1 .. n : resp.out[j].quest_id = ranked[j].q.quest_id
\* C11: candidates of equal score are returned in the order in which they
\* are in QUESTS (creation order), and that order decides which of them is
\* cut off by the limit k.
C11_TiesInCreationOrder ==
    IsRec =>
        LET cands == Candidates(resp.user_id)
            Returned(c) == \E j \in DOMAIN resp.out : resp.out[j].quest_id = cands[c].q.quest_id
        IN  /\ \A i, j \in DOMAIN resp.out :
                   (i < j /\ resp.out[i].score = resp.out[j].score)
                       => resp.out[i].quest_id < resp.out[j].quest_id
            /\ \A c \in DOMAIN cands : ~Returned(c) =>
                   \A j \in DOMAIN resp.out :
                       resp.out[j].score = cands[c].score
                           => resp.out[j].quest_id < cands[c].q.quest_id

\* of two candidates of equal score, the limit kept one and cut the other
C11_Witness ==
    /\ IsRec /\ Len(resp.out) = 1
    /\ \E c \in DOMAIN Candidates(resp.user_id) :
          /\ Candidates(resp.user_id)[c].score = resp.out[1].score
          /\ Candidates(resp.user_id)[c].q.quest_id # resp.out[1].quest_id

ReadOps == {"get_recommendations", "get_my_quests", "list_quests", "login_user"}

\* C12: get_recommendations, get_my_quests, list_quests and login_user leave
\* USERS and QUESTS as they were, whether they succeed or fail.
C12_ReadsDoNotMutate ==
    [][ (Handled /\ resp'.op \in ReadOps) => (USERS' = USERS /\ QUESTS' = QUESTS) ]_vars

\* get_my_quests returned the quests of a member
C12_Witness ==
    /\ resp.op = "get_my_quests" /\ resp.out # << >>

\* C13: join_quest and complete_quest with a user_id that is no key of USERS
\* are answered 404, so every participant and every completions key is the id
\* of an existing user.
C13_OnlyKnownUsers ==
    /\ ( /\ resp.op \in {"join_quest", "complete_quest"}
         /\ resp.user_id \notin UserIds ) => resp.status = 404
    /\ \A i \in QuestIds : /\ Members(i) \subseteq UserIds
                            /\ DOMAIN QUESTS[i].completions \subseteq UserIds
\* C14: with two or more join_quest requests by distinct users for the same
\* quest in flight at once, no reachable state has
\* len(participant_ids) > capacity.
C14_ConcurrentJoinsKeepCapacity ==
    ~ \E i \in QuestIds : Cardinality(Members(i)) > QUESTS[i].capacity
\* The sub-scores of the weighted sum, in hundredths.
\* 1.0 on an exact match, 0.7 when either side is "either", else 0.0
PreferenceMatch(a, b) ==
    IF a = b THEN 100 ELSE IF a = "either" \/ b = "either" THEN 70 ELSE 0

EnergyFit(energy, q) ==
    LET raw == 50
               + (CASE energy = "low" ->
                         (IF q.duration_mins <= 45 THEN 20 ELSE 0 - 10)
                       + (IF q.social_style \in {"quiet", "either"} THEN 20 ELSE 0 - 10)
                    [] energy = "high" ->
                         (IF q.duration_mins >= 60 THEN 20 ELSE 0)
                       + (IF q.social_style \in {"talkative", "either"} THEN 20 ELSE 0)
                    [] OTHER ->
                         (IF q.duration_mins >= 30 /\ q.duration_mins <= 90 THEN 10 ELSE 0))
    IN  IF raw < 0 THEN 0 ELSE IF raw > 100 THEN 100 ELSE raw

TagOverlap(interests, tags) ==
    IF interests = {} \/ tags = {} THEN 20
    ELSE LET v == 20 + 20 * Cardinality(interests \cap tags)
         IN  IF v > 100 THEN 100 ELSE v

\* 0.35*mode + 0.25*social_style + 0.25*energy + 0.15*tags, in ten-thousandths
WeightedScore(u, q) ==
      35 * PreferenceMatch(u.mode, q.mode)
    + 25 * PreferenceMatch(u.social_style, q.social_style)
    + 25 * EnergyFit(u.default_energy, q)
    + 15 * TagOverlap(u.interests, q.tags)

\* C15: the score attached to a recommended quest is the weighted sum of the
\* four sub-scores; a user in area NTU with energy high and the single quest
\* (NTU, mode either, talkative, 90 minutes, capacity 2, starting in one hour)
\* get that one quest with score 0.75.
C15_WeightedScore ==
    IsRec =>
        /\ \A j \in DOMAIN resp.out :
               resp.out[j].score = WeightedScore(USERS[resp.user_id], QUESTS[resp.out[j].quest_id])
        /\ ( /\ USERS[resp.user_id].area = "NTU"
             /\ USERS[resp.user_id].default_energy = "high"
             /\ resp.k = DefaultK
             /\ Len(QUESTS) = 1
             /\ QUESTS[1].area = "NTU" /\ QUESTS[1].mode = "either"
             /\ QUESTS[1].social_style = "talkative" /\ QUESTS[1].duration_mins = 90
             /\ QUESTS[1].capacity = 2 /\ QUESTS[1].participant_ids = {}
             /\ Instant(QUESTS[1].start_time) = resp.at + 1 )
            => ( /\ Len(resp.out) = 1
                 /\ resp.out[1].quest_id = 1
                 /\ resp.out[1].score = 7500 )
\* user u is a participant of some quest
HasJoined(u) == \E i \in QuestIds : u \in Members(i)

\* C16: a user's first_join_at is set by their first successful join_quest,
\* to the time of that join, and no later step changes or clears it.
C16_FirstJoinAtSetOnce ==
    [][ \A u \in UserIds :
          /\ ( /\ Handled /\ resp'.op = "join_quest" /\ resp'.user_id = u
               /\ resp'.status = 200 /\ resp'.detail = ""
               /\ ~HasJoined(u) )
              => first_join_at(USERS'[u]) = resp'.at
          /\ first_join_at(USERS[u]) # NoTime
              => first_join_at(USERS'[u]) = first_join_at(USERS[u]) ]_vars
\* C17: the score of a recommended quest is exactly 0.8 when the user's
\* social_style equals the quest's (both "either" included) and exactly 0.5
\* otherwise; "either" on one side only earns nothing.
C17_CoarseScore ==
    IsRec =>
        \A j \in DOMAIN resp.out :
            resp.out[j].score =
                (IF USERS[resp.user_id].social_style = resp.out[j].social_style
                 THEN 8000 ELSE 5000)

\* a quest was recommended with "either" on exactly one side
C17_Witness ==
    /\ IsRec
    /\ \E j \in DOMAIN resp.out :
          /\ USERS[resp.user_id].social_style # resp.out[j].social_style
          /\ "either" \in {USERS[resp.user_id].social_style, resp.out[j].social_style}
          /\ resp.out[j].score = 5000

\* C18: join_quest and complete_quest with an unknown quest_id,
\* get_recommendations with an unknown user_id and create_quest with an
\* unknown organizer_id are answered 404 and leave USERS and QUESTS unchanged.
C18_UnknownIdNotFound ==
    [][ ( /\ Handled
          /\ \/ resp'.op \in {"join_quest", "complete_quest"} /\ resp'.quest_id \notin QuestIds
             \/ resp'.op \in {"get_recommendations", "create_quest"} /\ resp'.user_id \notin UserIds )
        => ( resp'.status = 404 /\ USERS' = USERS /\ QUESTS' = QUESTS ) ]_vars

\* a quest was refused for its unknown organizer
C18_Witness ==
    /\ resp.op = "create_quest" /\ resp.status = 404
    /\ resp.user_id \notin UserIds
\* C19: get_my_quests(u) returns the joined quests ordered by start time,
\* earliest first, also when their start times were given with different
\* UTC offsets.
C19_MyQuestsByStartTime ==
    resp.op = "get_my_quests" =>
        \A i, j \in DOMAIN resp.out :
            i < j => Instant(parse_iso(resp.out[i].start_time_iso))
                       <= Instant(parse_iso(resp.out[j].start_time_iso))
\* the quests get_recommendations(user_id, k) returns
RecommendedIds(user_id, k) ==
    { Recommend(user_id, k)[j].quest_id : j \in DOMAIN Recommend(user_id, k) }

\* C20: a quest returned by get_recommendations(u) can be joined by u: the
\* join_quest(q, u) that follows with no other request in between succeeds
\* and adds u (it is neither "Full" nor "Already joined"), and afterwards
\* get_recommendations(u) no longer returns q.
C20_RecommendedIsJoinable ==
    [][ ( /\ IsRec /\ Handled
          /\ resp'.op = "join_quest" /\ resp'.user_id = resp.user_id
          /\ \E j \in DOMAIN resp.out : resp.out[j].quest_id = resp'.quest_id )
        => ( /\ resp'.status = 200 /\ resp'.detail = ""
             /\ resp.user_id \notin Members(resp'.quest_id)
             /\ resp.user_id \in QUESTS'[resp'.quest_id].participant_ids
             /\ \A k \in KInputs : resp'.quest_id \notin RecommendedIds(resp.user_id, k)' ) ]_vars

\* a user joined an open quest of their own area, one that was a candidate
\* for them until then
C20_Witness ==
    /\ resp.op = "join_quest" /\ resp.status = 200 /\ resp.detail = ""
    /\ resp.user_id \in UserIds
    /\ QUESTS[resp.quest_id].area = USERS[resp.user_id].area
    /\ resp.user_id \in Members(resp.quest_id)

\* the users whose display name equals `name` ignoring case
Named(name) == {i \in UserIds : Lower(USERS[i].display_name) = Lower(name)}

\* C21: with create_user requests handled one at a time, no two users in
\* USERS have display names that are equal ignoring case, so a login by name
\* matches at most one user; a create_user answered 400 carries the detail
\* "Name already taken." and leaves USERS as it was, and a create_user that
\* does add a user adds one whose name no user had, ignoring case.
C21_NamesUniqueIgnoringCase ==
    /\ [](/\ \A i, j \in UserIds :
               Lower(USERS[i].display_name) = Lower(USERS[j].display_name) => i = j
          /\ \A body \in UserLogin : Cardinality(Named(body.display_name)) <= 1)
    /\ [][(Handled /\ resp'.op = "create_user") =>
             IF resp'.status = 400
             THEN resp'.detail = "Name already taken." /\ USERS' = USERS
             ELSE /\ resp'.status = 200
                  /\ Len(USERS') = Len(USERS) + 1
                  /\ SubSeq(USERS', 1, Len(USERS)) = USERS
                  /\ Named(USERS'[Len(USERS')].display_name) = {}]_vars

\* two users are stored and a third create_user, whose name differs from a
\* stored one in case only or not at all, was turned away
C21_Witness ==
    /\ resp.op = "create_user" /\ resp.status = 400
    /\ Len(USERS) = 2
    /\ \E body \in UserCreate : Cardinality(Named(body.display_name)) = 1

\* C22: the list returned by get_my_quests(u) holds exactly the quests whose
\* participant_ids contains u, each once, each with has_joined true and with
\* is_completed true exactly when u is a key of that quest's completions; a
\* quest u rated without having joined it is not in the list.
C22_MyQuestsAreTheJoined ==
    resp.op = "get_my_quests" =>
        LET u   == resp.user_id
            out == resp.out
        IN  /\ {out[j].quest_id : j \in DOMAIN out} = {i \in QuestIds : u \in Members(i)}
            /\ \A j1, j2 \in DOMAIN out : out[j1].quest_id = out[j2].quest_id => j1 = j2
            /\ \A j \in DOMAIN out :
                   /\ out[j].has_joined = TRUE
                   /\ out[j].is_completed = (u \in DOMAIN QUESTS[out[j].quest_id].completions)
            /\ \A i \in QuestIds :
                   (u \in DOMAIN QUESTS[i].completions /\ u \notin Members(i))
                       => \A j \in DOMAIN out : out[j].quest_id # i

\* a user's list shows a quest they joined and rated
C22_Witness ==
    /\ resp.op = "get_my_quests"
    /\ \E j \in DOMAIN resp.out :
          /\ resp.out[j].is_completed
          /\ resp.user_id \in Members(resp.out[j].quest_id)
          /\ resp.user_id \in DOMAIN QUESTS[resp.out[j].quest_id].completions

Ratings(i) == QUESTS[i].completions

\* C23: a quest holds at most one rating per user and the last one submitted
\* wins: when complete_quest(Q, U, r) succeeds, Q.completions[U] is r whatever
\* was stored before, U is the only key that can be new (a second submission
\* replaces the value and adds no entry), the other users' ratings of Q stay,
\* and no other quest's completions, no participant_ids and no user change.
C23_LastRatingWins ==
    [][(Handled /\ resp'.op = "complete_quest" /\ resp'.status = 200) =>
         LET Q == resp'.quest_id
             U == resp'.user_id
             r == resp'.rating
         IN  /\ Q \in QuestIds
             /\ QUESTS'[Q].completions[U] = r
             /\ DOMAIN QUESTS'[Q].completions = DOMAIN Ratings(Q) \cup {U}
             /\ \A x \in DOMAIN Ratings(Q) \ {U} : QUESTS'[Q].completions[x] = Ratings(Q)[x]
             /\ Len(QUESTS') = Len(QUESTS)
             /\ \A i \in QuestIds \ {Q} : QUESTS'[i] = QUESTS[i]
             /\ [QUESTS'[Q] EXCEPT !.completions = Ratings(Q)] = QUESTS[Q]
             /\ USERS' = USERS]_vars

\* a quest holds the ratings of two users, the later of them the highest
\* rating, as its sender just submitted
C23_Witness ==
    /\ resp.op = "complete_quest" /\ resp.status = 200
    /\ resp.rating = MaxRating
    /\ Ratings(resp.quest_id)[resp.user_id] = MaxRating
    /\ Cardinality(DOMAIN Ratings(resp.quest_id)) = 2

\* C24: nothing is ever removed: in every step each user of USERS and each
\* quest of QUESTS is still there under its id, each quest keeps every member
\* of participant_ids and every key of completions, and a quest that is full
\* (it has no capacity available) is still full afterwards and is in no list
\* that a get_recommendations call made while it is full returns.
C24_MembershipMonotonic ==
    [][/\ Len(USERS') >= Len(USERS)
       /\ \A u \in UserIds : USERS'[u].user_id = USERS[u].user_id
       /\ Len(QUESTS') >= Len(QUESTS)
       /\ \A i \in QuestIds :
             /\ QUESTS'[i].quest_id = QUESTS[i].quest_id
             /\ Members(i) \subseteq Members(i)'
             /\ DOMAIN Ratings(i) \subseteq DOMAIN Ratings(i)'
             /\ ~capacity_available(QUESTS[i]) =>
                   /\ ~capacity_available(QUESTS'[i])
                   /\ (Handled /\ resp'.op = "get_recommendations" /\ resp'.status = 200) =>
                          \A j \in DOMAIN resp'.out : resp'.out[j].quest_id # i]_vars

\* a quest filled up, one of its members then rated it, and it is still
\* full with both members in it
C24_Witness ==
    /\ resp.op = "complete_quest" /\ resp.status = 200
    /\ IsFull(resp.quest_id)
    /\ resp.user_id \in Members(resp.quest_id)
    /\ resp.user_id \in DOMAIN Ratings(resp.quest_id)
====
